---- MODULE Spec2Model ----
(***************************************************************************)
(* Model of the SentinelScope example agents:                              *)
(*   examples/network-monitoring-agent.py  (connection collector with the  *)
(*       recent_connections suppression window and the dns_cache), and     *)
(*   examples/wifi-monitor.py              (ARP table scanner).            *)
(* Python values are modelled by what the interpreter does with them: an   *)
(* int and a str are different values (PyInt / PyStr), strings are TLA+    *)
(* strings handled with Len, SubSeq and \o.                                *)
(***************************************************************************)
EXTENDS Integers, Sequences, FiniteSets, TLC

(* ---------------- program constants ---------------- *)
SEEN_WINDOW == 60
DNS_CACHE_TTL == 3600
REPORT_INTERVAL == 60

(* ---------------- bounds of the model ---------------- *)
MaxWindows == 1
MaxConns == 2
MaxLag == 1
MaxLines == 1
MaxReplay == 2
MaxIterations == 2

(* Clock readings: the multiples of SEEN_WINDOW up to MaxWindows windows   *)
(* and DNS_CACHE_TTL, each with the reading one second later, so that ages *)
(* just below, equal to and just above both limits occur.                  *)
Times ==
  {w * SEEN_WINDOW + d : w \in 0..MaxWindows, d \in 0..1}
    \cup {DNS_CACHE_TTL + d : d \in 0..1}
    \cup {DNS_CACHE_TTL + SEEN_WINDOW + d : d \in 0..1}

(* Readings taken later inside the same call (resolve_ip, lsof fallback),  *)
(* at most lag seconds after the first.                                    *)
LaterReadings(t, lag) == {u \in Times : t <= u /\ u <= t + lag}

(* ---------------- Python values and string methods ---------------- *)
PyInt(n) == <<"int", n>>
PyStr(s) == <<"str", s>>

Digit(d) ==
  CASE d = 0 -> "0" [] d = 1 -> "1" [] d = 2 -> "2" [] d = 3 -> "3"
    [] d = 4 -> "4" [] d = 5 -> "5" [] d = 6 -> "6" [] d = 7 -> "7"
    [] d = 8 -> "8" [] d = 9 -> "9"

RECURSIVE Decimal(_)
Decimal(n) == IF n < 10 THEN Digit(n) ELSE Decimal(n \div 10) \o Digit(n % 10)

(* str(v) and f"{v}" of an int or a str *)
Str(v) == IF v[1] = "int" THEN Decimal(v[2]) ELSE v[2]

StartsWith(s, p) == Len(s) >= Len(p) /\ SubSeq(s, 1, Len(p)) = p

(* positions at which sub occurs in s *)
Occurrences(s, sub) ==
  {i \in 1..(Len(s) - Len(sub) + 1) : SubSeq(s, i, i + Len(sub) - 1) = sub}

Contains(s, sub) == Occurrences(s, sub) # {}

Min(S) == CHOOSE x \in S : \A y \in S : x <= y
Max(S) == CHOOSE x \in S : \A y \in S : x >= y

(* s.split(sep) *)
RECURSIVE Split(_, _)
Split(s, sep) ==
  IF ~Contains(s, sep) THEN <<s>>
  ELSE LET i == Min(Occurrences(s, sep))
       IN <<SubSeq(s, 1, i - 1)>> \o Split(SubSeq(s, i + Len(sep), Len(s)), sep)

(* s.rsplit(sep, 1), for s that contains sep *)
RSplit1(s, sep) ==
  LET i == Max(Occurrences(s, sep))
  IN <<SubSeq(s, 1, i - 1), SubSeq(s, i + Len(sep), Len(s))>>

(* s.strip("[]") *)
RECURSIVE StripBrackets(_)
StripBrackets(s) ==
  IF Len(s) > 0 /\ SubSeq(s, 1, 1) \in {"[", "]"}
    THEN StripBrackets(SubSeq(s, 2, Len(s)))
  ELSE IF Len(s) > 0 /\ SubSeq(s, Len(s), Len(s)) \in {"[", "]"}
    THEN StripBrackets(SubSeq(s, 1, Len(s) - 1))
  ELSE s

(* dict[k] = v *)
Put(d, k, v) == [x \in DOMAIN d \cup {k} |-> IF x = k THEN v ELSE d[x]]

EmptyDict == [x \in {} |-> 0]


(* ================= network-monitoring-agent.py ================= *)

VARIABLES
  recent_connections,  \* dict (remote_ip, remote_port) -> time of the report
  dns_cache,           \* dict ip -> <<hostname, timestamp>>
  events,              \* the list returned by the last collect_connections()
  kept,                \* conn_key of each element of events, in order
  lookups,             \* log of the gethostbyaddr calls of the last call
  observed,            \* endpoints <<ip, port text>> the last call parsed
  path,                \* "psutil", "lsof", "lsof-failed" ("none" at start)
  now,                 \* current_time of the last call
  rnow,                \* the reading of resolve_ip in the last call
  lastReported,        \* history: endpoint -> current_time of its last Event
  lastLookup           \* history: ip -> reading of its last gethostbyaddr

agentVars ==
  <<recent_connections, dns_cache, events, kept, lookups, observed, path,
    now, rnow, lastReported, lastLookup>>

(* --- the resolver (socket.gethostbyaddr), an external collaborator --- *)
Resolvers == {"up", "alt", "down", "echo"}

gethostbyaddr(resolver, ip) ==
  CASE resolver = "up" -> [raised |-> FALSE, name |-> "host-" \o ip]
    [] resolver = "alt" -> [raised |-> FALSE, name |-> "alt-" \o ip]
    [] resolver = "echo" -> [raised |-> FALSE, name |-> ip]
    [] resolver = "down" -> [raised |-> TRUE, name |-> ""]

(* mutant: an entry exactly DNS_CACHE_TTL old still answers *)
CacheFresh_Inclusive(t, ts) == t - ts <= DNS_CACHE_TTL

(* mutant: the cache answers for SEEN_WINDOW only *)
CacheFresh_SeenWindow(t, ts) == t - ts < SEEN_WINDOW

(* dns_cache entry usable at reading t *)
CacheFresh(t, ts) == t - ts < DNS_CACHE_TTL

(* mutant: a failed lookup is not cached *)
resolve_ip_NoNegativeCache(ip, cache, t, resolver) ==
  IF ip \in DOMAIN cache /\ CacheFresh(t, cache[ip][2])
  THEN [hostname |-> cache[ip][1], cache |-> cache, called |-> FALSE,
        raised |-> FALSE]
  ELSE LET r == gethostbyaddr(resolver, ip)
       IN IF r.raised
          THEN [hostname |-> ip, cache |-> cache, called |-> TRUE,
                raised |-> TRUE]
          ELSE [hostname |-> r.name, cache |-> Put(cache, ip, <<r.name, t>>),
                called |-> TRUE, raised |-> FALSE]

(* mutant: a failed lookup answers "unknown" *)
resolve_ip_FailureUnknown(ip, cache, t, resolver) ==
  IF ip \in DOMAIN cache /\ CacheFresh(t, cache[ip][2])
  THEN [hostname |-> cache[ip][1], cache |-> cache, called |-> FALSE,
        raised |-> FALSE]
  ELSE LET r == gethostbyaddr(resolver, ip)
       IN IF r.raised
          THEN [hostname |-> "unknown",
                cache |-> Put(cache, ip, <<"unknown", t>>),
                called |-> TRUE, raised |-> TRUE]
          ELSE [hostname |-> r.name, cache |-> Put(cache, ip, <<r.name, t>>),
                called |-> TRUE, raised |-> FALSE]

resolve_ip(ip, cache, t, resolver) ==
  IF ip \in DOMAIN cache /\ CacheFresh(t, cache[ip][2])
  THEN [hostname |-> cache[ip][1], cache |-> cache, called |-> FALSE,
        raised |-> FALSE]
  ELSE LET r == gethostbyaddr(resolver, ip)
       IN IF r.raised
          THEN [hostname |-> ip, cache |-> Put(cache, ip, <<ip, t>>),
                called |-> TRUE, raised |-> TRUE]
          ELSE [hostname |-> r.name, cache |-> Put(cache, ip, <<r.name, t>>),
                called |-> TRUE, raised |-> FALSE]

(* --- get_process_name --- *)
ProcessTable == [p \in {101, 102} |-> IF p = 101 THEN "firefox" ELSE "curl"]

get_process_name(pid) ==
  IF pid \in DOMAIN ProcessTable THEN ProcessTable[pid] ELSE "unknown"

(* --- eviction sweep of recent_connections --- *)
(* mutant: an entry exactly SEEN_WINDOW old is removed too *)
Expired_AtBoundary(t, ts) == t - ts >= SEEN_WINDOW

Expired(t, ts) == t - ts > SEEN_WINDOW

EvictSeen(rc, t) == [k \in {x \in DOMAIN rc : ~Expired(t, rc[x])} |-> rc[k]]

(* --- loopback tests of the two collectors --- *)
IsLoopback(ip) == StartsWith(ip, "127.") \/ ip = "::1"

(* mutant: the lsof collector does not know ::1 *)
IsLoopbackLsof_V4Only(ip) == StartsWith(ip, "127.") \/ ip = "localhost"

IsLoopbackLsof(ip) ==
  StartsWith(ip, "127.") \/ ip = "::1" \/ ip = "localhost"

(* --- URL formatting (same text in both collectors) --- *)
(* mutant: the scheme follows the port whatever the hostname *)
FullUrl_ByPort(hostname, ip, port) ==
  IF Str(port) = "443" THEN "https://" \o hostname
  ELSE IF Str(port) = "80" THEN "http://" \o hostname
  ELSE "tcp://" \o hostname \o ":" \o Str(port)

FullUrl(hostname, ip, port) ==
  IF hostname # ip
  THEN IF Str(port) = "443" THEN "https://" \o hostname
       ELSE IF Str(port) = "80" THEN "http://" \o hostname
       ELSE "tcp://" \o hostname \o ":" \o Str(port)
  ELSE "tcp://" \o ip \o ":" \o Str(port)

Domain(hostname, ip) == IF hostname # ip THEN hostname ELSE ip

(* datetime.datetime.now().isoformat() at reading t *)
IsoFormat(t) == <<"iso", t>>

MakeEvent(hostname, ip, port, label, t) ==
  [domain |-> Domain(hostname, ip),
   fullUrl |-> FullUrl(hostname, ip, port),
   browser |-> label,
   ipAddress |-> ip,
   detectedAt |-> IsoFormat(t)]

(* mutant: the list of events is module state, not a local of the call *)
LoopState_SharedEvents(rc, dns) ==
  [rc |-> rc, dns |-> dns, events |-> events, kept |-> kept, lookups |-> <<>>]

(* state threaded through the loop over the connections of one call *)
LoopState(rc, dns) ==
  [rc |-> rc, dns |-> dns, events |-> <<>>, kept |-> <<>>, lookups |-> <<>>]

(* mutant: a suppressed connection refreshes its timestamp *)
ReportConnection_Refresh(st, conn_key, label, t, later, resolver) ==
  IF conn_key \in DOMAIN st.rc THEN [st EXCEPT !.rc = Put(st.rc, conn_key, t)]
  ELSE LET r == resolve_ip(conn_key[1], st.dns, later, resolver)
       IN [rc |-> Put(st.rc, conn_key, t),
           dns |-> r.cache,
           events |-> Append(st.events,
                        MakeEvent(r.hostname, conn_key[1], conn_key[2],
                                  label, later)),
           kept |-> Append(st.kept, conn_key),
           lookups |-> IF r.called
                       THEN Append(st.lookups,
                                   [ip |-> conn_key[1], raised |-> r.raised])
                       ELSE st.lookups]

(* the part of the loop body after the loopback test, common to both *)
ReportConnection(st, conn_key, label, t, later, resolver) ==
  IF conn_key \in DOMAIN st.rc THEN st
  ELSE LET r == resolve_ip(conn_key[1], st.dns, later, resolver)
       IN [rc |-> Put(st.rc, conn_key, t),
           dns |-> r.cache,
           events |-> Append(st.events,
                        MakeEvent(r.hostname, conn_key[1], conn_key[2],
                                  label, later)),
           kept |-> Append(st.kept, conn_key),
           lookups |-> IF r.called
                       THEN Append(st.lookups,
                                   [ip |-> conn_key[1], raised |-> r.raised])
                       ELSE st.lookups]

(* --- collect_connections: one psutil connection --- *)
WellFormedConn(conn) == conn.status = "ESTABLISHED" /\ conn.raddr # <<>>

ConnKey(conn) == <<conn.raddr[1], PyInt(conn.raddr[2])>>

PsutilStep(st, conn, t, later, resolver) ==
  IF ~WellFormedConn(conn) THEN st
  ELSE IF IsLoopback(conn.raddr[1]) THEN st
  ELSE ReportConnection(st, ConnKey(conn),
         IF conn.pid # 0 THEN get_process_name(conn.pid) ELSE "unknown",
         t, later, resolver)

RECURSIVE PsutilLoop(_, _, _, _, _)
PsutilLoop(st, conns, t, later, resolver) ==
  IF conns = <<>> THEN st
  ELSE LET next == PsutilStep(st, Head(conns), t, later, resolver)
       IN \* events only grows; the comparison has the body of the loop
          \* evaluated for one connection before the next one is taken up
          IF Len(next.events) >= Len(st.events)
          THEN PsutilLoop(next, Tail(conns), t, later, resolver)
          ELSE next

(* --- inputs: what psutil.net_connections and lsof can return --- *)
PsutilConn(ip, port, pid) ==
  [status |-> "ESTABLISHED", raddr |-> <<ip, port>>, pid |-> pid]

ListeningConn == [status |-> "LISTEN", raddr |-> <<>>, pid |-> 101]

(* an ESTABLISHED entry whose raddr is the empty tuple *)
NoRaddrConn == [status |-> "ESTABLISHED", raddr |-> <<>>, pid |-> 101]

(* COMMAND PID USER FD TYPE DEVICE SIZE/OFF NODE NAME (STATE) *)
LsofLine(command, name) ==
  <<command, "101", "root", "3u", "IPv4", "0x0", "0t0", "TCP", name,
    "(ESTABLISHED)">>

LsofName(ip, port) ==
  "10.0.0.2:5000->"
    \o (IF Contains(ip, ":") THEN "[" \o ip \o "]" ELSE ip)
    \o ":" \o Decimal(port)

(* every address and port the specifications below draw inputs from *)
AllIPs ==
  {"1.1.1.1", "127.0.0.1", "127.8.8.8", "::1", "localhost", "2606:4700::1111",
   "224.0.0.251", "239.255.255.250", "255.255.255.255"}
AllPorts == {443, 80, 22}

MalformedLsof ==
  {<<"firefox", "101", "root", "3u", "IPv4", "TCP", "10.0.0.2:5000->1.1.1.1:443">>,
   LsofLine("firefox", "*:631"),
   LsofLine("firefox", "10.0.0.2:5000->1.1.1.1"),
   LsofLine("firefox", "10.0.0.2:5000->1.1.1.1:443->9.9.9.9:443")}

(* the same remote endpoint from another local port and process *)
OtherLocalLsof ==
  <<"curl", "102", "root", "7u", "IPv4", "0x0", "0t0", "TCP",
    "10.0.0.2:6000->1.1.1.1:443", "(ESTABLISHED)">>

LsofUniverse ==
  {LsofLine(c, LsofName(ip, port)) :
     c \in {"firefox", "curl"}, ip \in AllIPs, port \in AllPorts}
    \cup MalformedLsof \cup {OtherLocalLsof}

(* --- collect_connections_lsof: one output line (its fields) --- *)
NameField(parts) ==
  LET hits == {i \in 1..Len(parts) : Contains(parts[i], "->")}
  IN IF hits = {} THEN "" ELSE parts[Min(hits)]

(* mutant: the field count is not tested *)
LsofParses_AnyLength(parts) ==
  /\ NameField(parts) # ""
  /\ Len(Split(NameField(parts), "->")) = 2
  /\ Contains(Split(NameField(parts), "->")[2], ":")

(* the line yields a remote endpoint: enough fields, one "->", a ":" *)
LsofParses(parts) ==
  /\ Len(parts) >= 8
  /\ NameField(parts) # ""
  /\ Len(Split(NameField(parts), "->")) = 2
  /\ Contains(Split(NameField(parts), "->")[2], ":")

LsofRemote(parts) ==
  LET remote == Split(NameField(parts), "->")[2]
      pair == RSplit1(remote, ":")
  IN <<StripBrackets(pair[1]), pair[2]>>

LsofKey(parts) == <<LsofRemote(parts)[1], PyStr(LsofRemote(parts)[2])>>

(* the parse of every line of LsofUniverse, computed once *)
ParsedLines ==
  [parts \in LsofUniverse |->
     IF LsofParses(parts)
     THEN [ok |-> TRUE, r_ip |-> LsofRemote(parts)[1], key |-> LsofKey(parts)]
     ELSE [ok |-> FALSE, r_ip |-> "", key |-> <<>>]]

LsofStep(st, parts, t, later, resolver) ==
  IF ~ParsedLines[parts].ok THEN st
  ELSE IF IsLoopbackLsof(ParsedLines[parts].r_ip) THEN st
  ELSE ReportConnection(st, ParsedLines[parts].key, parts[1], t, later,
                        resolver)

RECURSIVE LsofLoop(_, _, _, _, _)
LsofLoop(st, lines, t, later, resolver) ==
  IF lines = <<>> THEN st
  ELSE LsofLoop(LsofStep(st, Head(lines), t, later, resolver),
                Tail(lines), t, later, resolver)

(* --- endpoints, for stating properties --- *)
Endpoint(conn_key) == <<conn_key[1], Str(conn_key[2])>>

PsutilObserved(conns) ==
  {Endpoint(ConnKey(conns[i])) :
     i \in {j \in 1..Len(conns) : WellFormedConn(conns[j])}}

LsofObserved(lines) ==
  {Endpoint(ParsedLines[lines[i]].key) :
     i \in {j \in 1..Len(lines) : ParsedLines[lines[j]].ok}}

KeptEndpoints(ks) == {Endpoint(ks[i]) : i \in 1..Len(ks)}

LookedUp(log) == {log[i].ip : i \in 1..Len(log)}


(* lists of at most n elements of S *)
ListsUpTo(S, n) == UNION {[1..k -> S] : k \in 0..n}

(* ---------------- initial state ---------------- *)
AgentInit ==
  /\ recent_connections = EmptyDict
  /\ dns_cache = EmptyDict
  /\ events = <<>>
  /\ kept = <<>>
  /\ lookups = <<>>
  /\ observed = {}
  /\ path = "none"
  /\ now = 0
  /\ rnow = 0
  /\ lastReported = EmptyDict
  /\ lastLookup = EmptyDict

(* what one call leaves behind, given the loop's final state *)
Finish(st, obs, p, t, later) ==
  /\ recent_connections' = st.rc
  /\ dns_cache' = st.dns
  /\ events' = st.events
  /\ kept' = st.kept
  /\ lookups' = st.lookups
  /\ observed' = obs
  /\ path' = p
  /\ now' = t
  /\ rnow' = later
  /\ lastReported' =
       [e \in DOMAIN lastReported \cup KeptEndpoints(st.kept) |->
          IF e \in KeptEndpoints(st.kept) THEN t ELSE lastReported[e]]
  /\ lastLookup' =
       [ip \in DOMAIN lastLookup \cup LookedUp(st.lookups) |->
          IF ip \in LookedUp(st.lookups) THEN later ELSE lastLookup[ip]]

(* collect_connections(), psutil.net_connections succeeds *)
CollectConnections(conns, t, later, resolver) ==
  LET st == PsutilLoop(LoopState(EvictSeen(recent_connections, t), dns_cache),
                       conns, t, later, resolver)
  IN Finish(st, PsutilObserved(conns), "psutil", t, later)

(* collect_connections(), psutil raises AccessDenied: the sweep has run at t,
   collect_connections_lsof() reads the clock again and sweeps again *)
CollectConnectionsLsof(lines, t, later, resolver) ==
  LET swept == EvictSeen(EvictSeen(recent_connections, t), later)
      st == LsofLoop(LoopState(swept, dns_cache), lines, later, later, resolver)
  IN Finish(st, LsofObserved(lines), "lsof", later, later)

(* the fallback when lsof itself fails: except Exception: pass *)
CollectConnectionsLsofFails(t, later) ==
  LET swept == EvictSeen(EvictSeen(recent_connections, t), later)
  IN Finish(LoopState(swept, dns_cache), {}, "lsof-failed", later, later)

PsutilTick(pool, clock, resolvers, n, lag) ==
  \E t \in clock : \E later \in LaterReadings(t, lag) \cap clock :
    \E resolver \in resolvers : \E conns \in ListsUpTo(pool, n) :
      CollectConnections(conns, t, later, resolver)

LsofTick(pool, clock, resolvers, n, lag) ==
  \E t \in clock : \E later \in LaterReadings(t, lag) \cap clock :
    \E resolver \in resolvers : \E lines \in ListsUpTo(pool, n) :
      CollectConnectionsLsof(lines, t, later, resolver)

LsofFailTick(clock, lag) ==
  \E t \in clock : \E later \in LaterReadings(t, lag) \cap clock :
    CollectConnectionsLsofFails(t, later)

(* ======================= wifi-monitor.py ======================= *)

VARIABLES
  seen_devices,   \* dict mac -> last_reported_time
  report_batch,   \* the devices reported by the last loop iteration
  sent,           \* the events the last iteration posted (send_events)
  wifi_now        \* current_time of the last iteration

wifiVars == <<seen_devices, report_batch, sent, wifi_now>>

Digits == {"0", "1", "2", "3", "4", "5", "6", "7", "8", "9"}
HexDigits == Digits \cup {"a", "b", "c", "d", "e", "f"}
                    \cup {"A", "B", "C", "D", "E", "F"}

(* every character of s is in the class *)
AllIn(s, class) == \A i \in 1..Len(s) : SubSeq(s, i, i) \in class

(* [\d\.]+ *)
IsDigitsDots(s) == Len(s) > 0 /\ AllIn(s, Digits \cup {"."})

(* ^([0-9a-fA-F]{2}[:-]){5}([0-9a-fA-F]{2})$ *)
IsMac(s) ==
  /\ Len(s) = 17
  /\ \A i \in 1..17 :
       IF i % 3 = 0 THEN SubSeq(s, i, i) \in {":", "-"}
       ELSE SubSeq(s, i, i) \in HexDigits

(* An arp -a line is the list of its words, separated by single blanks.
   re.search(r"\? \(([\d\.]+)\) at ([0-9a-fA-F:]+) on", line): the words
   at which the pattern matches *)
BsdMatches(words) ==
  {i \in 1..(Len(words) - 4) :
     /\ Len(words[i]) > 0
     /\ SubSeq(words[i], Len(words[i]), Len(words[i])) = "?"
     /\ Len(words[i + 1]) > 2
     /\ SubSeq(words[i + 1], 1, 1) = "("
     /\ SubSeq(words[i + 1], Len(words[i + 1]), Len(words[i + 1])) = ")"
     /\ IsDigitsDots(SubSeq(words[i + 1], 2, Len(words[i + 1]) - 1))
     /\ words[i + 2] = "at"
     /\ Len(words[i + 3]) > 0
     /\ AllIn(words[i + 3], HexDigits \cup {":"})
     /\ StartsWith(words[i + 4], "on")}

(* the multicast/broadcast test of the BSD branch *)
IsFiltered(ip, mac) ==
  mac = "ff:ff:ff:ff:ff:ff" \/ StartsWith(ip, "224.") \/ ip = "255.255.255.255"

(* the body of the loop of scan_network for one line: the devices added *)
ScanLine(words) ==
  IF BsdMatches(words) # {}
  THEN LET i == Min(BsdMatches(words))
           ip == SubSeq(words[i + 1], 2, Len(words[i + 1]) - 1)
           mac == words[i + 3]
       IN IF IsFiltered(ip, mac) THEN <<>>
          ELSE IF Contains(mac, "incomplete") THEN <<>>
          ELSE <<[ip |-> ip, mac |-> mac]>>
  ELSE IF Len(words) >= 2 /\ IsDigitsDots(words[1]) /\ IsMac(words[2])
       THEN <<[ip |-> words[1], mac |-> words[2]]>>
       ELSE <<>>

BsdLine(ip, mac) == <<"?", "(" \o ip \o ")", "at", mac, "on", "en0">>
WinLine(ip, mac, kind) == <<ip, mac, kind>>

ArpUniverse ==
  {BsdLine("10.0.0.1", "b8:5e:71:aa:bb:cc"),
   BsdLine("10.0.0.2", "b8:5e:71:aa:bb:cc"),
   BsdLine("10.0.0.9", "(incomplete)"),
   BsdLine("224.0.0.251", "1:0:5e:0:0:fb"),
   BsdLine("239.255.255.250", "1:0:5e:7f:ff:fa"),
   BsdLine("255.255.255.255", "ff:ff:ff:ff:ff:ff"),
   WinLine("192.168.1.1", "00-0C-29-aa-bb-cc", "dynamic"),
   WinLine("224.0.0.22", "01-00-5e-00-00-16", "static"),
   WinLine("255.255.255.255", "ff-ff-ff-ff-ff-ff", "static"),
   <<"Interface:", "192.168.1.5", "---", "0x4">>}

(* the scan of every line of ArpUniverse, computed once *)
ScannedLines == [words \in ArpUniverse |-> ScanLine(words)]

RECURSIVE scan_network(_)
scan_network(lines) ==
  IF lines = <<>> THEN <<>>
  ELSE ScannedLines[Head(lines)] \o scan_network(Tail(lines))

(* str.lower() on the characters a MAC address can hold *)
LowerChar(c) ==
  CASE c = "A" -> "a" [] c = "B" -> "b" [] c = "C" -> "c" [] c = "D" -> "d"
    [] c = "E" -> "e" [] c = "F" -> "f" [] OTHER -> c

RECURSIVE Lower(_)
Lower(s) ==
  IF Len(s) = 0 THEN ""
  ELSE LowerChar(SubSeq(s, 1, 1)) \o Lower(SubSeq(s, 2, Len(s)))

VENDORS ==
  <<<<"ac:de:48", "Private">>, <<"b8:5e:71", "Intel">>,
    <<"7a:15:59", "Unknown">>, <<"de:be:b6", "Apple">>,
    <<"9e:5d:8f", "Apple">>, <<"a8:fe:9d", "Apple">>,
    <<"bc:d0:74", "Samsung">>, <<"00:0c:29", "VMware">>>>

get_vendor(mac) ==
  LET hits == {i \in 1..Len(VENDORS) : StartsWith(Lower(mac), VENDORS[i][1])}
  IN IF hits = {} THEN "Unknown Vendor" ELSE VENDORS[Min(hits)][2]

(* the vendor of every MAC a line of ArpUniverse can yield, computed once *)
VendorOf ==
  [mac \in {ScannedLines[w][1].mac : w \in {x \in ArpUniverse : ScannedLines[x] # <<>>}}
     |-> get_vendor(mac)]

(* one event of send_events *)
DeviceEvent(device, t) ==
  [domain |-> "Device: " \o device.mac,
   fullUrl |-> "tcp://" \o device.ip,
   browser |-> "NetScan (" \o VendorOf[device.mac] \o ")",
   ipAddress |-> device.ip,
   detectedAt |-> IsoFormat(t),
   protocol |-> "arp"]

(* mutant: reported again once the minute is reached *)
DueForReport_AtInterval(seen, mac, t) ==
  mac \notin DOMAIN seen \/ t - seen[mac] >= REPORT_INTERVAL

(* new, or not reported for more than a minute *)
DueForReport(seen, mac, t) ==
  mac \notin DOMAIN seen \/ t - seen[mac] > REPORT_INTERVAL

(* the filter loop of main over found_devices *)
RECURSIVE ReportLoop(_, _, _, _)
ReportLoop(seen, batch, found, t) ==
  IF found = <<>> THEN [seen |-> seen, batch |-> batch]
  ELSE LET dev == Head(found)
       IN IF DueForReport(seen, dev.mac, t)
          THEN ReportLoop(Put(seen, dev.mac, t), Append(batch, dev),
                          Tail(found), t)
          ELSE ReportLoop(seen, batch, Tail(found), t)

WifiInit ==
  /\ seen_devices = EmptyDict
  /\ report_batch = <<>>
  /\ sent = <<>>
  /\ wifi_now = 0

(* one iteration of the loop of main, arp -a printing the given lines *)
WifiIteration(lines, t) ==
  LET r == ReportLoop(seen_devices, <<>>, scan_network(lines), t)
  IN /\ seen_devices' = r.seen
     /\ report_batch' = r.batch
     /\ sent' = [i \in 1..Len(r.batch) |-> DeviceEvent(r.batch[i], t)]
     /\ wifi_now' = t

(* the iteration when arp fails: scan_network returns [] *)
WifiScanFails(t) ==
  /\ report_batch' = <<>>
  /\ sent' = <<>>
  /\ wifi_now' = t
  /\ UNCHANGED seen_devices

(* ============ main() of network-monitoring-agent.py ============ *)

FLUSH_INTERVAL == 10
batch_size == 50

VARIABLES
  pending_events,  \* list of events waiting for the next flush
  last_flush,      \* reading taken at the last flush
  batch,           \* argument of send_batch in the last iteration (<<>>: no call)
  posted,          \* outcome of its POST: "ok", "failed" ("none": no call)
  flow,            \* argument of send_flow_events in the last iteration
  iterations,      \* iterations of the loop so far
  collected,       \* history: every event collect_connections returned, in order
  handed           \* history: every event passed to send_batch, in order

mainVars ==
  <<pending_events, last_flush, batch, posted, flow, iterations, collected,
    handed>>

MainInit ==
  /\ pending_events = <<>>
  /\ last_flush = 0
  /\ batch = <<>>
  /\ posted = "none"
  /\ flow = <<>>
  /\ iterations = 0
  /\ collected = <<>>
  /\ handed = <<>>

(* send_batch(events) with the outcome of its POST: what was posted and
   what it hands to send_flow_events *)
send_batch(evts, ok) ==
  IF evts = <<>> THEN [posted |-> "none", flow |-> <<>>]
  ELSE IF ok
       THEN [posted |-> "ok", flow |-> SubSeq(evts, 1, Min({10, Len(evts)}))]
       ELSE [posted |-> "failed", flow |-> <<>>]

(* the flush test of the loop, at reading u *)
FlushDue(pend, u, lf) ==
  (u - lf > FLUSH_INTERVAL) \/ (Len(pend) >= batch_size)

(* mutant: a batch whose POST failed stays pending *)
Flush_KeepOnFailure(pend, u, lf, ok) ==
  IF ~FlushDue(pend, u, lf)
  THEN [pending |-> pend, batch |-> <<>>, posted |-> "none", flow |-> <<>>,
        last_flush |-> lf]
  ELSE IF pend = <<>>
       THEN [pending |-> pend, batch |-> <<>>, posted |-> "none",
             flow |-> <<>>, last_flush |-> u]
       ELSE [pending |-> IF ok THEN <<>> ELSE pend, batch |-> pend,
             posted |-> send_batch(pend, ok).posted,
             flow |-> send_batch(pend, ok).flow, last_flush |-> u]

(* the flush block of the loop: lines 344-349 *)
Flush(pend, u, lf, ok) ==
  IF ~FlushDue(pend, u, lf)
  THEN [pending |-> pend, batch |-> <<>>, posted |-> "none", flow |-> <<>>,
        last_flush |-> lf]
  ELSE IF pend = <<>>
       THEN [pending |-> pend, batch |-> <<>>, posted |-> "none",
             flow |-> <<>>, last_flush |-> u]
       ELSE [pending |-> <<>>, batch |-> pend,
             posted |-> send_batch(pend, ok).posted,
             flow |-> send_batch(pend, ok).flow, last_flush |-> u]

(* ============ observation of the calls, for replay ============ *)

VARIABLES
  raw,      \* what the last call was given: collaborator answers and clock
  log,      \* the calls of the first run: what each was given and returned
  replay    \* 0 while the first run is recorded, else the next call to replay

replayVars == <<raw, log, replay>>

NoCall ==
  [path |-> "none", input |-> <<>>, t |-> 0, later |-> 0, resolver |-> "down"]

ReplayInit ==
  /\ raw = NoCall
  /\ log = <<>>
  /\ replay = 0

vars == <<agentVars, wifiVars, mainVars, replayVars>>

nonAgentVars == <<wifiVars, mainVars, replayVars>>

Init == AgentInit /\ WifiInit /\ MainInit /\ ReplayInit

(* ---- Spec: the suppression window. Both collectors, one remote endpoint,
        a resolver that always fails, any order of clock readings ---- *)
SeenTimes == {w * SEEN_WINDOW + d : w \in 0..MaxWindows, d \in 0..1}

SeenPsutil == {PsutilConn("1.1.1.1", 443, 101)}
SeenLsof == {LsofLine("firefox", LsofName("1.1.1.1", 443))}

SeenPsutilTick ==
  PsutilTick(SeenPsutil, SeenTimes, {"down"}, MaxConns, 0)
    /\ UNCHANGED nonAgentVars
SeenLsofTick ==
  LsofTick(SeenLsof, SeenTimes, {"down"}, MaxConns, 0) /\ UNCHANGED nonAgentVars
SeenLsofFailTick == LsofFailTick(SeenTimes, 0) /\ UNCHANGED nonAgentVars

Next == SeenPsutilTick \/ SeenLsofTick \/ SeenLsofFailTick

Spec == Init /\ [][Next]_vars

(* ---- SpecDns: the DNS cache across its TTL. Both collectors, one remote
        endpoint, resolve_ip reading the clock up to MaxLag later ---- *)
DnsTimes ==
  {0, 1, SEEN_WINDOW + 1, DNS_CACHE_TTL, DNS_CACHE_TTL + 1}

DnsPsutilTick ==
  PsutilTick(SeenPsutil, DnsTimes, {"up", "alt", "down"}, MaxConns, MaxLag)
    /\ UNCHANGED nonAgentVars
DnsLsofTick ==
  LsofTick(SeenLsof, DnsTimes, {"up", "alt", "down"}, MaxConns, MaxLag)
    /\ UNCHANGED nonAgentVars

NextDns == DnsPsutilTick \/ DnsLsofTick

SpecDns == Init /\ [][NextDns]_vars

(* ---- SpecUrl: every port and every resolver outcome, the clock standing
        still; calls of at most MaxLines connections ---- *)
UrlPsutil == {PsutilConn("1.1.1.1", port, 101) : port \in AllPorts}
UrlLsof == {LsofLine("curl", LsofName("1.1.1.1", port)) : port \in AllPorts}

UrlPsutilTick ==
  PsutilTick(UrlPsutil, {0}, {"up", "down", "echo"}, MaxLines, 0)
    /\ UNCHANGED nonAgentVars
UrlLsofTick ==
  LsofTick(UrlLsof, {0}, {"up", "down", "echo"}, MaxLines, 0)
    /\ UNCHANGED nonAgentVars

NextUrl == UrlPsutilTick \/ UrlLsofTick

SpecUrl == Init /\ [][NextUrl]_vars

(* ---- SpecLoop: loopback addresses in every form next to a remote one,
        before and after the suppression window ---- *)
LoopTimes == {0, SEEN_WINDOW + 1}
LoopIPs == {"1.1.1.1", "127.0.0.1", "127.8.8.8", "::1"}

LoopPsutil == {PsutilConn(ip, 443, 101) : ip \in LoopIPs}
LoopLsof ==
  {LsofLine("firefox", LsofName(ip, 443)) : ip \in LoopIPs \cup {"localhost"}}

LoopPsutilTick ==
  PsutilTick(LoopPsutil, LoopTimes, {"down"}, MaxLines, 0)
    /\ UNCHANGED nonAgentVars
LoopLsofTick ==
  LsofTick(LoopLsof, LoopTimes, {"down"}, MaxLines, 0) /\ UNCHANGED nonAgentVars

NextLoop == LoopPsutilTick \/ LoopLsofTick

SpecLoop == Init /\ [][NextLoop]_vars

(* ---- SpecArp: iterations of the Wi-Fi monitor over arp -a outputs of at
        most MaxLines lines ---- *)
ArpTimes == {0, REPORT_INTERVAL + 1}

ArpIteration ==
  /\ \E t \in ArpTimes : \E lines \in ListsUpTo(ArpUniverse, MaxLines) :
       WifiIteration(lines, t)
  /\ UNCHANGED <<agentVars, mainVars, replayVars>>

ArpFailure ==
  /\ \E t \in ArpTimes : WifiScanFails(t)
  /\ UNCHANGED <<agentVars, mainVars, replayVars>>

NextArp == ArpIteration \/ ArpFailure

SpecArp == Init /\ [][NextArp]_vars

(* ---- SpecReset: a first run of at most MaxReplay calls from the initial
        state, reset(), and the same calls given again in order ---- *)
ResetTimes == {0, DNS_CACHE_TTL}

ResetCalls ==
  {[path |-> "psutil", input |-> conns, t |-> t, later |-> t,
    resolver |-> resolver] :
     conns \in ListsUpTo(SeenPsutil, MaxLines), t \in ResetTimes,
     resolver \in {"up", "down"}}
  \cup
  {[path |-> "lsof", input |-> lines, t |-> t, later |-> t,
    resolver |-> resolver] :
     lines \in ListsUpTo(SeenLsof, MaxLines), t \in ResetTimes,
     resolver \in {"up", "down"}}

(* collect_connections() given the collaborator answers and readings of c *)
Call(c) ==
  IF c.path = "psutil"
  THEN CollectConnections(c.input, c.t, c.later, c.resolver)
  ELSE CollectConnectionsLsof(c.input, c.t, c.later, c.resolver)

ResetRecord ==
  /\ replay = 0
  /\ Len(log) < MaxReplay
  /\ \E c \in ResetCalls :
       /\ Call(c)
       /\ raw' = c
       /\ log' = Append(log, [call |-> c, out |-> events'])
  /\ replay' = 0
  /\ UNCHANGED <<wifiVars, mainVars>>

(* reset(): clears both internal caches *)
reset ==
  /\ replay = 0
  /\ log # <<>>
  /\ recent_connections' = EmptyDict
  /\ dns_cache' = EmptyDict
  /\ raw' = NoCall
  /\ replay' = 1
  /\ UNCHANGED <<events, kept, lookups, observed, path, now, rnow,
                 lastReported, lastLookup, log, wifiVars, mainVars>>

ResetReplay ==
  /\ replay \in 1..Len(log)
  /\ Call(log[replay].call)
  /\ raw' = log[replay].call
  /\ replay' = replay + 1
  /\ UNCHANGED <<log, wifiVars, mainVars>>

NextReset == ResetRecord \/ reset \/ ResetReplay

SpecReset == Init /\ [][NextReset]_vars

(* ---- SpecProc: one remote endpoint held by two processes, from two local
        ports, on both collectors ---- *)
ProcTimes == {0, 1, SEEN_WINDOW + 1}

ProcPsutil ==
  {PsutilConn("1.1.1.1", 443, 101), PsutilConn("1.1.1.1", 443, 102)}
ProcLsof ==
  {LsofLine("firefox", LsofName("1.1.1.1", 443)), OtherLocalLsof}

ProcCalls ==
  {[path |-> "psutil", input |-> conns, t |-> t, later |-> t,
    resolver |-> "down"] :
     conns \in ListsUpTo(ProcPsutil, MaxConns), t \in ProcTimes}
  \cup
  {[path |-> "lsof", input |-> lines, t |-> t, later |-> t,
    resolver |-> "down"] :
     lines \in ListsUpTo(ProcLsof, MaxConns), t \in ProcTimes}

ProcPsutilTick ==
  /\ \E c \in ProcCalls : c.path = "psutil" /\ Call(c) /\ raw' = c
  /\ UNCHANGED <<log, replay, wifiVars, mainVars>>

ProcLsofTick ==
  /\ \E c \in ProcCalls : c.path = "lsof" /\ Call(c) /\ raw' = c
  /\ UNCHANGED <<log, replay, wifiVars, mainVars>>

NextProc == ProcPsutilTick \/ ProcLsofTick

SpecProc == Init /\ [][NextProc]_vars

(* ---- SpecMalformed: entries without a remote endpoint mixed with a
        well-formed one, on both collectors ---- *)
MalformedTimes == {0, SEEN_WINDOW + 1}

MalformedPsutil ==
  {NoRaddrConn, ListeningConn, PsutilConn("1.1.1.1", 443, 101)}
MalformedLsofPool ==
  MalformedLsof \cup {LsofLine("firefox", LsofName("1.1.1.1", 443))}

MalformedCalls ==
  {[path |-> "psutil", input |-> conns, t |-> t, later |-> t,
    resolver |-> "down"] :
     conns \in ListsUpTo(MalformedPsutil, MaxConns), t \in MalformedTimes}
  \cup
  {[path |-> "lsof", input |-> lines, t |-> t, later |-> t,
    resolver |-> "down"] :
     lines \in ListsUpTo(MalformedLsofPool, MaxConns), t \in MalformedTimes}

MalformedPsutilTick ==
  /\ \E c \in MalformedCalls : c.path = "psutil" /\ Call(c) /\ raw' = c
  /\ UNCHANGED <<log, replay, wifiVars, mainVars>>

MalformedLsofTick ==
  /\ \E c \in MalformedCalls : c.path = "lsof" /\ Call(c) /\ raw' = c
  /\ UNCHANGED <<log, replay, wifiVars, mainVars>>

NextMalformed == MalformedPsutilTick \/ MalformedLsofTick

SpecMalformed == Init /\ [][NextMalformed]_vars

(* ---- SpecMain: at most MaxIterations iterations of the loop of main, the
        collector returning nothing, one Event, or a burst of batch_size - 1
        or batch_size + 1 Events ---- *)
MainTimes == {0, FLUSH_INTERVAL + 1}

(* n connections of one process to n ports of one host *)
Burst(base, n) == [i \in 1..n |-> PsutilConn("1.1.1.1", base + i, 101)]

MainInputs ==
  {Burst(1000, 0), Burst(1000, 1), Burst(2000, batch_size - 1),
   Burst(4000, batch_size + 1)}

MainCalls ==
  {[path |-> "psutil", input |-> conns, t |-> t, later |-> t,
    resolver |-> "down"] : conns \in MainInputs, t \in MainTimes}
  \cup
  {[path |-> "lsof", input |-> <<line>>, t |-> t, later |-> t,
    resolver |-> "down"] : line \in SeenLsof, t \in MainTimes}

(* one iteration of the while loop: lines 339-351 *)
MainIteration ==
  /\ iterations < MaxIterations
  /\ \E c \in MainCalls : \E u \in MainTimes : \E ok \in BOOLEAN :
       /\ c.t <= u
       /\ u <= c.t + MaxLag
       /\ Call(c)
       /\ raw' = c
       /\ LET pend == pending_events \o events'
              r == Flush(pend, u, last_flush, ok)
          IN /\ pending_events' = r.pending
             /\ batch' = r.batch
             /\ posted' = r.posted
             /\ flow' = r.flow
             /\ last_flush' = r.last_flush
             /\ handed' = handed \o r.batch
       /\ collected' = collected \o events'
  /\ iterations' = iterations + 1
  /\ UNCHANGED <<log, replay, wifiVars>>

(* the iteration when collect_connections raises after its sweep: the
   except branch of the loop, lines 356-358 *)
MainIterationFails ==
  /\ iterations < MaxIterations
  /\ \E t \in MainTimes :
       /\ Finish(LoopState(EvictSeen(recent_connections, t), dns_cache),
                 {}, "raised", t, t)
       /\ raw' = [NoCall EXCEPT !.path = "raised", !.t = t, !.later = t]
  /\ batch' = <<>>
  /\ posted' = "none"
  /\ flow' = <<>>
  /\ iterations' = iterations + 1
  /\ UNCHANGED <<pending_events, last_flush, collected, handed, log, replay,
                 wifiVars>>

NextMain == MainIteration \/ MainIterationFails

SpecMain == Init /\ [][NextMain]_vars

(* ---- SpecThrottle: iterations of the Wi-Fi monitor over scans of at most
        MaxConns lines of two devices, one of them listed on two addresses,
        at the interval, one second past it and before it ---- *)
ThrottleTimes == {0, REPORT_INTERVAL, REPORT_INTERVAL + 1}

ThrottleLines ==
  {BsdLine("10.0.0.1", "b8:5e:71:aa:bb:cc"),
   BsdLine("10.0.0.2", "b8:5e:71:aa:bb:cc"),
   WinLine("192.168.1.1", "00-0C-29-aa-bb-cc", "dynamic")}

ThrottleIteration ==
  /\ \E t \in ThrottleTimes : \E lines \in ListsUpTo(ThrottleLines, MaxConns) :
       /\ WifiIteration(lines, t)
       /\ raw' = [NoCall EXCEPT !.path = "arp", !.input = lines, !.t = t,
                                !.later = t]
  /\ UNCHANGED <<agentVars, mainVars, log, replay>>

ThrottleFailure ==
  /\ \E t \in ThrottleTimes :
       /\ WifiScanFails(t)
       /\ raw' = [NoCall EXCEPT !.path = "arp", !.t = t, !.later = t]
  /\ UNCHANGED <<agentVars, mainVars, log, replay>>

NextThrottle == ThrottleIteration \/ ThrottleFailure

SpecThrottle == Init /\ [][NextThrottle]_vars

(* ---- SpecDrop: calls of both collectors over lists of at most MaxConns
        connections to one remote endpoint and to loopback, inside and
        past the suppression window ---- *)
DropTimes == {0, 1, SEEN_WINDOW + 1}

DropPsutil == {PsutilConn("1.1.1.1", 443, 101), PsutilConn("127.0.0.1", 443, 101)}
DropLsof ==
  {LsofLine("firefox", LsofName("1.1.1.1", 443)),
   LsofLine("firefox", LsofName("localhost", 443))}

DropCalls ==
  {[path |-> "psutil", input |-> conns, t |-> t, later |-> t,
    resolver |-> "down"] :
     conns \in ListsUpTo(DropPsutil, MaxConns), t \in DropTimes}
  \cup
  {[path |-> "lsof", input |-> lines, t |-> t, later |-> t,
    resolver |-> "down"] :
     lines \in ListsUpTo(DropLsof, MaxConns), t \in DropTimes}

DropPsutilTick ==
  /\ \E c \in DropCalls : c.path = "psutil" /\ Call(c) /\ raw' = c
  /\ UNCHANGED <<log, replay, wifiVars, mainVars>>

DropLsofTick ==
  /\ \E c \in DropCalls : c.path = "lsof" /\ Call(c) /\ raw' = c
  /\ UNCHANGED <<log, replay, wifiVars, mainVars>>

NextDrop == DropPsutilTick \/ DropLsofTick

SpecDrop == Init /\ [][NextDrop]_vars

(* ---- SpecStale: calls of both collectors for one remote endpoint just
        before, at and just after the expiry of its DNS entry, the resolver
        answering with one name, with another, or failing ---- *)
StaleTimes == {0, DNS_CACHE_TTL - 1, DNS_CACHE_TTL, DNS_CACHE_TTL + 1}

StaleCalls ==
  {[path |-> "psutil", input |-> conns, t |-> t, later |-> t,
    resolver |-> resolver] :
     conns \in ListsUpTo(SeenPsutil, MaxLines), t \in StaleTimes,
     resolver \in {"up", "alt", "down"}}
  \cup
  {[path |-> "lsof", input |-> lines, t |-> t, later |-> t,
    resolver |-> resolver] :
     lines \in ListsUpTo(SeenLsof, MaxLines), t \in StaleTimes,
     resolver \in {"up", "alt", "down"}}

StalePsutilTick ==
  /\ \E c \in StaleCalls : c.path = "psutil" /\ Call(c) /\ raw' = c
  /\ UNCHANGED <<log, replay, wifiVars, mainVars>>

StaleLsofTick ==
  /\ \E c \in StaleCalls : c.path = "lsof" /\ Call(c) /\ raw' = c
  /\ UNCHANGED <<log, replay, wifiVars, mainVars>>

NextStale == StalePsutilTick \/ StaleLsofTick

SpecStale == Init /\ [][NextStale]_vars

(* ===================== the claims ===================== *)

Range(seq) == {seq[i] : i \in 1..Len(seq)}

Distance(a, b) == IF a >= b THEN a - b ELSE b - a

(* C1: suppression invariant. For every ConnectionKey (remote_ip,
   remote_port) no two Events are emitted less than SEEN_WINDOW apart: a
   call never emits two Events for one endpoint, and an Event for an
   endpoint reported before is at least SEEN_WINDOW away from the
   endpoint's previous Event. *)
C1_SuppressionInvariant ==
  [][/\ \A i, j \in 1..Len(kept') :
          i # j => Endpoint(kept'[i]) # Endpoint(kept'[j])
     /\ \A e \in KeptEndpoints(kept') :
          e \in DOMAIN lastReported
            => Distance(now', lastReported[e]) >= SEEN_WINDOW]_vars

(* C2: re-admission. A ConnectionKey last reported at time t and observed
   again by a call at time now with now - t > SEEN_WINDOW is emitted by
   that call. *)
C2_Readmission ==
  [][\A e \in observed' :
       (e \in DOMAIN lastReported /\ now' - lastReported[e] > SEEN_WINDOW)
         => e \in KeptEndpoints(kept')]_vars

(* C3: resolution invariant. For every IP the resolver is invoked at most
   once in any interval shorter than DNS_CACHE_TTL, whether the lookup
   succeeded or failed: a call invokes it at most once per IP, and never
   sooner than DNS_CACHE_TTL after the previous invocation for that IP. *)
C3_ResolutionInvariant ==
  [][/\ \A i, j \in 1..Len(lookups') :
          i # j => lookups'[i].ip # lookups'[j].ip
     /\ \A ip \in LookedUp(lookups') :
          ip \in DOMAIN lastLookup
            => rnow' - lastLookup[ip] >= DNS_CACHE_TTL]_vars

(* the failure cached at reading 1 still answers, without a lookup, the
   call that re-admits the endpoint at DNS_CACHE_TTL (age TTL - 1) *)
C3_Witness ==
  /\ kept # <<>>
  /\ lookups = <<>>
  /\ now = DNS_CACHE_TTL
  /\ "1.1.1.1" \in DOMAIN dns_cache
  /\ dns_cache["1.1.1.1"] = <<"1.1.1.1", 1>>

(* the URL the port alone would give for host h *)
UrlByPort(h, p) ==
  IF p = "443" THEN "https://" \o h
  ELSE IF p = "80" THEN "http://" \o h
  ELSE "tcp://" \o h \o ":" \o p

(* C4 as stated: URL synthesis. Every emitted Event with resolved host h
   (its domain: the hostname, or the IP when resolution failed or returned
   the IP) and remote port p has fullUrl "https://h" for p = 443,
   "http://h" for p = 80 and "tcp://h:p" for every other port. *)
C4_UrlByPortForEveryHost ==
  \A i \in 1..Len(events) :
    events[i].fullUrl = UrlByPort(events[i].domain, Str(kept[i][2]))

(* C4 amended: the port selects the scheme only when the resolved hostname
   differs from the IP; an Event whose host is the IP itself (resolution
   failed or returned the IP) has fullUrl "tcp://ip:p" for every port,
   443 and 80 included. *)
C4_UrlSynthesis ==
  \A i \in 1..Len(events) :
    LET h == events[i].domain
        ip == events[i].ipAddress
        p == Str(kept[i][2])
    IN events[i].fullUrl =
         IF h # ip THEN UrlByPort(h, p) ELSE "tcp://" \o ip \o ":" \o p

(* an Event on port 443 whose host is the raw IP *)
C4_Witness ==
  \E i \in 1..Len(events) :
    /\ Str(kept[i][2]) = "443"
    /\ events[i].domain = events[i].ipAddress
    /\ events[i].fullUrl = "tcp://1.1.1.1:443"

LoopbackAddress(ip) == StartsWith(ip, "127.") \/ ip = "::1"

(* C5: loopback filtering. In every reachable state, on the psutil path and
   on the lsof path, no Event carries a remote IP in 127.0.0.0/8 or ::1, and
   no such connection enters the seen set. *)
C5_LoopbackFiltering ==
  /\ \A i \in 1..Len(events) : ~LoopbackAddress(events[i].ipAddress)
  /\ \A e \in KeptEndpoints(kept) : ~LoopbackAddress(e[1])
  /\ \A k \in DOMAIN recent_connections : ~LoopbackAddress(k[1])

(* the lsof collector has parsed a connection to [::1]:443 and emitted
   nothing for it *)
C5_Witness ==
  /\ path = "lsof"
  /\ <<"::1", "443">> \in observed
  /\ \A e \in KeptEndpoints(kept) : e[1] # "::1"

(* C6: resolution failure is not an error. When the lookup for a kept
   connection raises, the call still returns, with an Event for that
   connection whose domain is the raw remote IP, and the DNS cache holds
   (ip, reading of the lookup) for it. *)
C6_ResolutionFailure ==
  \A n \in 1..Len(lookups) :
    lookups[n].raised =>
      /\ path \in {"psutil", "lsof"}
      /\ \E i \in 1..Len(events) :
           /\ events[i].ipAddress = lookups[n].ip
           /\ events[i].domain = lookups[n].ip
           /\ kept[i][1] = lookups[n].ip
      /\ lookups[n].ip \in DOMAIN dns_cache
      /\ dns_cache[lookups[n].ip] = <<lookups[n].ip, rnow>>

(* a call whose lookup raised and which emitted the Event *)
C6_Witness ==
  /\ \E n \in 1..Len(lookups) : lookups[n].raised
  /\ Len(events) = 1
  /\ events[1].domain = "1.1.1.1"

(* C7 as stated: after the eviction step of a call at time now no SeenEntry
   with now - last_reported >= SEEN_WINDOW remains. *)
C7_EvictsAtWindow ==
  \A k \in DOMAIN recent_connections :
    ~(now - recent_connections[k] >= SEEN_WINDOW)

(* C7 amended: the eviction step of a call at time now removes exactly the
   entries with now - last_reported > SEEN_WINDOW; an entry exactly
   SEEN_WINDOW old is kept with its timestamp and still suppresses its key
   in that call. *)
C7_EvictionBoundary ==
  [][\A k \in DOMAIN recent_connections :
       IF now' - recent_connections[k] > SEEN_WINDOW
       THEN k \in DOMAIN recent_connections'
              => (recent_connections'[k] = now' /\ k \in Range(kept'))
       ELSE /\ k \in DOMAIN recent_connections'
            /\ recent_connections'[k] = recent_connections[k]
            /\ k \notin Range(kept')]_vars

(* a key observed by the psutil collector exactly SEEN_WINDOW after its
   entry was written: the entry is still there and nothing is emitted *)
C7_Witness ==
  /\ path = "psutil"
  /\ kept = <<>>
  /\ \E k \in DOMAIN recent_connections :
       /\ now - recent_connections[k] = SEEN_WINDOW
       /\ k[2] = PyInt(443)
       /\ Endpoint(k) \in observed

(* C8 as stated: after any call the DNS cache holds no entry with
   now - resolved_at >= DNS_CACHE_TTL. *)
C8_NoExpiredDnsEntry ==
  \A ip \in DOMAIN dns_cache : now - dns_cache[ip][2] < DNS_CACHE_TTL

(* C8 amended: no call removes a DnsCacheEntry. An entry changes only when
   resolve_ip is called for its IP at a reading with
   reading - resolved_at >= DNS_CACHE_TTL; the resolver is then invoked and
   the entry overwritten with resolved_at = reading. Until then an expired
   entry stays in the cache. *)
C8_DnsEntriesOnlyOverwritten ==
  [][/\ DOMAIN dns_cache \subseteq DOMAIN dns_cache'
     /\ \A ip \in DOMAIN dns_cache :
          dns_cache'[ip] # dns_cache[ip]
            => /\ rnow' - dns_cache[ip][2] >= DNS_CACHE_TTL
               /\ ip \in LookedUp(lookups')
               /\ dns_cache'[ip][2] = rnow']_vars

(* an entry a full TTL old is still cached after a call that observed
   nothing *)
C8_Witness ==
  /\ observed = {}
  /\ path = "psutil"
  /\ \E ip \in DOMAIN dns_cache : now - dns_cache[ip][2] >= DNS_CACHE_TTL

FirstOctet(ip) == Split(ip, ".")[1]

MulticastOrBroadcast(ip) ==
  \/ FirstOctet(ip) \in {Decimal(n) : n \in 224..239}
  \/ ip = "255.255.255.255"

(* C9: multicast/broadcast filtering. No Event, of the connection
   collectors or of the ARP scan in either line format, carries an IP in
   224.0.0.0/4 or 255.255.255.255. *)
C9_MulticastBroadcastFiltering ==
  /\ \A i \in 1..Len(sent) : ~MulticastOrBroadcast(sent[i].ipAddress)
  /\ \A i \in 1..Len(events) : ~MulticastOrBroadcast(events[i].ipAddress)

(* C10: clock skew. In a call whose reading is earlier than a recorded
   timestamp, the entry with the later timestamp is not evicted (seen set
   and DNS cache alike), and the ConnectionKey (remote_ip, remote_port) of a
   seen entry stamped in the future is not emitted. *)
C10_ClockSkew ==
  [][/\ \A k \in DOMAIN recent_connections :
          recent_connections[k] > now'
            => /\ k \in DOMAIN recent_connections'
               /\ recent_connections'[k] = recent_connections[k]
               /\ Endpoint(k) \notin KeptEndpoints(kept')
     /\ \A ip \in DOMAIN dns_cache :
          dns_cache[ip][2] > rnow'
            => (ip \in DOMAIN dns_cache' /\ dns_cache'[ip] = dns_cache[ip])]_vars

(* C11: reset replay. After reset() the calls of the first run, given again
   in order with the same connections, readings and resolver answers, return
   what they returned in the first run from the initial state. *)
C11_ResetReplay ==
  replay >= 2 => events = log[replay - 1].out

(* the whole first run has been replayed; its first call emitted an Event
   and its second call, observing the endpoint again, was suppressed *)
C11_Witness ==
  /\ Len(log) >= 2
  /\ replay = Len(log) + 1
  /\ log[1].out # <<>>
  /\ log[2].call.input # <<>>
  /\ log[2].out = <<>>

(* the remote endpoint and the process label of one raw connection *)
RawEndpoint(p, x) ==
  IF p = "psutil" THEN Endpoint(ConnKey(x)) ELSE Endpoint(ParsedLines[x].key)

RawLabel(p, x) == IF p = "psutil" THEN ProcessTable[x.pid] ELSE x[1]

FirstWith(c, e) ==
  Min({i \in 1..Len(c.input) : RawEndpoint(c.path, c.input[i]) = e})

(* C12: process-independent suppression key. Raw connections that share
   (remote_ip, remote_port) and differ in local endpoint or process give one
   Event: a call emits at most one Event per endpoint, it carries the label
   of the first such connection of the call, and an endpoint reported less
   than SEEN_WINDOW away is not emitted again. *)
C12_ProcessIndependentKey ==
  [][/\ \A i, j \in 1..Len(kept') :
          i # j => Endpoint(kept'[i]) # Endpoint(kept'[j])
     /\ \A i \in 1..Len(kept') :
          events'[i].browser =
            RawLabel(raw'.path,
                     raw'.input[FirstWith(raw', Endpoint(kept'[i]))])
     /\ \A e \in observed' :
          (e \in DOMAIN lastReported
             /\ Distance(now', lastReported[e]) < SEEN_WINDOW)
            => e \notin KeptEndpoints(kept')]_vars

(* a raw connection without a remote address or port *)
MalformedRaw(p, x) ==
  IF p = "psutil" THEN x.raddr = <<>> ELSE x \in MalformedLsof

WithoutMalformed(c) ==
  SelectSeq(c.input, LAMBDA x : ~MalformedRaw(c.path, x))

(* C13: malformed input is skipped, never raised. A call given malformed
   raw connections returns, and leaves the Events and both caches exactly
   as the same call without them would: they produce no Event, change no
   cache, and the well-formed connections after them are processed. *)
C13_MalformedInputSkipped ==
  [][LET good == WithoutMalformed(raw')
         swept == EvictSeen(recent_connections, now')
         st == IF raw'.path = "psutil"
               THEN PsutilLoop(LoopState(swept, dns_cache), good, now',
                               rnow', raw'.resolver)
               ELSE LsofLoop(LoopState(swept, dns_cache), good, now',
                             rnow', raw'.resolver)
     IN /\ path' = raw'.path
        /\ events' = st.events
        /\ recent_connections' = st.rc
        /\ dns_cache' = st.dns
        /\ good = <<>> =>
             /\ events' = <<>>
             /\ recent_connections' = swept
             /\ dns_cache' = dns_cache]_vars

(* an lsof call whose first line is malformed and whose second line gives
   the Event *)
C13_Witness ==
  /\ raw.path = "lsof"
  /\ Len(raw.input) = 2
  /\ raw.input[1] \in MalformedLsof
  /\ Len(events) = 1
  /\ events[1].ipAddress = "1.1.1.1"

(* C14: flush size bound. Every call of send_batch receives at most
   batch_size events. *)
C14_FlushSizeBound ==
  Len(batch) <= batch_size

(* the MACs of a list of devices *)
Macs(devices) == {devices[i].mac : i \in 1..Len(devices)}

(* C15: Wi-Fi report throttle. In every iteration a device put in the
   report batch was never reported before or its last report is more than
   REPORT_INTERVAL seconds older than the reading of the iteration; the
   time kept for a MAC is the reading of the last iteration that reported
   it; no MAC is twice in one batch. *)
C15_ReportThrottle ==
  [][/\ \A mac \in Macs(report_batch') :
          /\ \/ mac \notin DOMAIN seen_devices
             \/ wifi_now' - seen_devices[mac] > REPORT_INTERVAL
          /\ seen_devices'[mac] = wifi_now'
     /\ \A mac \in DOMAIN seen_devices' \ Macs(report_batch') :
          /\ mac \in DOMAIN seen_devices
          /\ seen_devices'[mac] = seen_devices[mac]
     /\ \A i, j \in 1..Len(report_batch') :
          report_batch'[i].mac = report_batch'[j].mac => i = j]_vars

(* a scan listing one MAC on two addresses: reported once, at its first
   address *)
C15_Witness ==
  /\ raw.path = "arp"
  /\ raw.input = <<BsdLine("10.0.0.1", "b8:5e:71:aa:bb:cc"),
                   BsdLine("10.0.0.2", "b8:5e:71:aa:bb:cc")>>
  /\ wifi_now = REPORT_INTERVAL + 1
  /\ Len(report_batch) = 1
  /\ report_batch[1].ip = "10.0.0.1"

(* the conn_key the collector of path p computes for a raw connection *)
RawKey(p, x) == IF p = "psutil" THEN ConnKey(x) ELSE ParsedLines[x].key

RawLoopback(p, x) ==
  IF p = "psutil" THEN IsLoopback(x.raddr[1])
  ELSE IsLoopbackLsof(ParsedLines[x].r_ip)

(* the raw connection is dropped: loopback, or its key is in the seen set
   left by the sweep *)
Dropped(p, x, swept) == RawLoopback(p, x) \/ RawKey(p, x) \in DOMAIN swept

(* C16: a suppressed or filtered observation changes nothing. For every raw
   connection a call drops because its key is in the just-swept seen set or
   its IP is loopback: the key gives no Event, a key in the seen set keeps
   its timestamp, a loopback key gets no seen entry, and when every
   observation of the IP in the call is dropped the DNS entry of the IP is
   as before and the resolver is not asked about it. *)
C16_DroppedChangesNothing ==
  [][LET c == raw'
         swept == EvictSeen(recent_connections, now')
         DroppedAt(i) == Dropped(c.path, c.input[i], swept)
     IN \A i \in 1..Len(c.input) :
          DroppedAt(i) =>
            LET k == RawKey(c.path, c.input[i])
            IN /\ k \notin Range(kept')
               /\ k \in DOMAIN swept =>
                    /\ k \in DOMAIN recent_connections'
                    /\ recent_connections'[k] = recent_connections[k]
               /\ k \notin DOMAIN swept =>
                    k \notin DOMAIN recent_connections'
               /\ (\A j \in 1..Len(c.input) :
                      RawKey(c.path, c.input[j])[1] = k[1] => DroppedAt(j))
                    => /\ k[1] \notin LookedUp(lookups')
                       /\ k[1] \in DOMAIN dns_cache' <=>
                            k[1] \in DOMAIN dns_cache
                       /\ k[1] \in DOMAIN dns_cache =>
                            dns_cache'[k[1]] = dns_cache[k[1]]]_vars

(* a call one second after the report that observes the reported connection
   and a loopback one: no Event, the timestamp still that of the report *)
C16_Witness ==
  /\ raw.path = "psutil"
  /\ raw.input = <<PsutilConn("1.1.1.1", 443, 101),
                   PsutilConn("127.0.0.1", 443, 101)>>
  /\ now = 1
  /\ events = <<>>
  /\ recent_connections = (ConnKey(PsutilConn("1.1.1.1", 443, 101)) :> 0)
  /\ "1.1.1.1" \in DOMAIN dns_cache
  /\ dns_cache["1.1.1.1"][2] = 0

(* C17: primary and fallback paths share one suppression state. The two
   collectors keep one remote endpoint under one key of recent_connections,
   and an endpoint whose entry survives the sweep of a call, whichever
   collector made the entry, is not reported by that call. *)
C17_PathsShareSuppression ==
  [][/\ \A k1, k2 \in DOMAIN recent_connections' :
          Endpoint(k1) = Endpoint(k2) => k1 = k2
     /\ \A k \in DOMAIN recent_connections :
          ~Expired(now', recent_connections[k])
            => Endpoint(k) \notin KeptEndpoints(kept')]_vars

(* what resolve_ip stores and returns when it asks the resolver about ip *)
Outcome(resolver, ip) ==
  IF gethostbyaddr(resolver, ip).raised THEN ip
  ELSE gethostbyaddr(resolver, ip).name

(* C19: no stale DNS answer. The hostname of an Event comes from the cache
   only when the entry of its IP is less than DNS_CACHE_TTL old at the
   reading of the call, and is then the cached hostname; when the IP has no
   entry or its entry is DNS_CACHE_TTL old or older the resolver is asked,
   the entry becomes the new outcome with resolved_at the reading of the
   call, and the Event carries that outcome. *)
C19_NoStaleDnsAnswer ==
  [][\A i \in 1..Len(kept') :
       LET ip == kept'[i][1]
           cached == ip \in DOMAIN dns_cache
                       /\ rnow' - dns_cache[ip][2] < DNS_CACHE_TTL
       IN IF ip \in LookedUp(lookups')
          THEN /\ ~cached
               /\ dns_cache'[ip] = <<Outcome(raw'.resolver, ip), rnow'>>
               /\ events'[i].domain = Outcome(raw'.resolver, ip)
          ELSE /\ cached
               /\ dns_cache'[ip] = dns_cache[ip]
               /\ events'[i].domain = dns_cache[ip][1]]_vars

(* an Event one second before the expiry of the entry made at 0: the cached
   name, though the resolver would now give another *)
C19_Witness ==
  /\ now = DNS_CACHE_TTL - 1
  /\ raw.resolver = "alt"
  /\ Len(events) = 1
  /\ events[1].domain = "host-1.1.1.1"
  /\ lookups = <<>>
  /\ dns_cache = ("1.1.1.1" :> <<"host-1.1.1.1", 0>>)

(* C18: batch hand-off. Every Event a call returned is either still pending
   or has been passed to send_batch, once and in collection order; right
   after a flush pending_events is empty, whether the POST succeeded or
   failed. *)
C18_BatchHandOff ==
  /\ collected = handed \o pending_events
  /\ posted \in {"ok", "failed"} => (batch # <<>> /\ pending_events = <<>>)
  /\ batch # <<>> => posted \in {"ok", "failed"}

(* a flush of several events whose POST failed *)
C18_Witness ==
  /\ posted = "failed"
  /\ Len(batch) >= 2
  /\ pending_events = <<>>
  /\ handed = collected

====
